---- MODULE Spec2Model ----
(***************************************************************************)
(* Model of src/Fasta.py: the class AlignmentFasta.                        *)
(*                                                                         *)
(* Python objects live on a heap: a dict is a heap cell addressed by its   *)
(* index in `heap`, and a field or local variable that holds a dict holds  *)
(* that index, so that two names for one dict (self.sequences = sequences) *)
(* see each other's writes.  A dict is the sequence of its entries in      *)
(* insertion order.  A value is a str or a list, tagged by `kind`; its     *)
(* items are one-character strings, or None where pandas pads a short row. *)
(***************************************************************************)
EXTENDS Integers, Sequences, FiniteSets

\* ------------------------------------------------------------- bounds

\* longest input sequence
MaxLen == 3
\* how many calls the caller makes in all: constructions and filterings
MaxCalls == 3
\* longest sequence handed to write_file
MaxWriteLen == 121

\* headers of the input mapping (at most one row per identifier)
Identifiers == {"x", "y"}
\* residues and the gap symbol of the input sequences
Alphabet == {"A", "C", "-"}
\* residues of the long rows handed to write_file
WriteAlphabet == <<"A", "C", "G", "T", "N", "-", "K">>
\* how the residues of a long row advance from one position to the next
WritePatterns == {1, 2, 3}

\* the gap symbol compared against in __delete_gaped_columns
GapSymbol == "-"
\* the block width of write_file
BlockSize == 60
\* Python's None, the cell pandas puts where a row is too short
None == "None"

VARIABLES
    heap,          \* the dict objects; heap[1] is the mapping the caller built
    aligns,        \* the AlignmentFasta instances: sequences, seq_length, num_of_sequences
    raised,        \* the exception the most recent call raised, or "none"
    pc,            \* where __delete_gaped_columns stands: idle, convert, frame, assign
    self,          \* the instance __delete_gaped_columns runs on (0: never called)
    sequence_dict, \* its local variable sequence_dict: a heap index
    key,           \* the position of the loop of line 198 in sequence_dict.keys()
    seq_df,        \* its local variable seq_df after line 203
    file,          \* the text of the file write_file wrote
    given,         \* history: the caller's mapping as it was built
    before,        \* history: self.sequences when __delete_gaped_columns was called
    outcome,       \* history: how the most recent __delete_gaped_columns call ended
    passes,        \* history: per instance, the calls of __delete_gaped_columns that returned
    calls          \* history: the calls made so far

vars == <<heap, aligns, raised, pc, self, sequence_dict, key, seq_df, file,
          given, before, outcome, passes, calls>>

\* ------------------------------------------------------------- values

Str(items) == [kind |-> "str", items |-> items]
List(items) == [kind |-> "list", items |-> items]

\* list(v): the characters of a str, or a copy of a list
list(v) == List(v.items)

\* len(v)
len(v) == Len(v.items)

SeqsUpTo(S, n) == UNION {[1..k -> S] : k \in 0..n}

\* the strings an input row may be
Strings == {Str(s) : s \in SeqsUpTo(Alphabet, MaxLen)}

\* the sequences of distinct identifiers: the key orders of an input mapping
KeyOrders ==
    {ks \in SeqsUpTo(Identifiers, Cardinality(Identifiers)) :
        \A i, j \in 1..Len(ks) : i # j => ks[i] # ks[j]}

\* the mapping with the keys ks in this order and the values vs
Mapping(ks, vs) == [i \in 1..Len(ks) |-> [key |-> ks[i], val |-> vs[i]]]

\* d[k] = v on a key the dict holds at position i: the entry keeps its place
SetItem(d, i, v) == [d EXCEPT ![i].val = v]

\* ------------------------------------------------------------- pandas

Max(S) == CHOOSE m \in S : \A x \in S : x <= m

\* pd.DataFrame.from_dict(d, orient='index'): one row per key in key order,
\* columns labelled 0..n-1 for the longest row, shorter rows padded with None
FromDictIndex(d) ==
    LET n == Max({len(d[r].val) : r \in 1..Len(d)} \cup {0})
    IN  [index   |-> [r \in 1..Len(d) |-> d[r].key],
         columns |-> [c \in 1..n |-> c - 1],
         data    |-> [r \in 1..Len(d) |->
                        [c \in 1..n |-> IF c <= len(d[r].val)
                                        THEN d[r].val.items[c] ELSE None]]]

\* AnyGap with .any() taken over the first row alone
AnyGapFirstRow(df) ==
    [c \in 1..Len(df.columns) |->
        Len(df.index) > 0 /\ df.data[1][c] = GapSymbol]

\* (seq_df == '-').any(): per column, whether some row holds the gap symbol
AnyGap(df) ==
    [c \in 1..Len(df.columns) |->
        \E r \in 1..Len(df.index) : df.data[r][c] = GapSymbol]

\* ~mask
Invert(mask) == [c \in 1..Len(mask) |-> ~mask[c]]

RECURSIVE TruePositions(_, _)
\* the positions from j on where the mask is True, ascending
TruePositions(mask, j) ==
    IF j > Len(mask) THEN <<>>
    ELSE (IF mask[j] THEN <<j>> ELSE <<>>) \o TruePositions(mask, j + 1)

\* df.loc[:, mask]: the columns where the mask is True, labels and order kept
Loc(df, mask) ==
    LET pos == TruePositions(mask, 1)
    IN  [index   |-> df.index,
         columns |-> [k \in 1..Len(pos) |-> df.columns[pos[k]]],
         data    |-> [r \in 1..Len(df.index) |->
                        [k \in 1..Len(pos) |-> df.data[r][pos[k]]]]]

\* df.T
Transpose(df) ==
    [index   |-> df.columns,
     columns |-> df.index,
     data    |-> [c \in 1..Len(df.columns) |->
                    [r \in 1..Len(df.index) |-> df.data[r][c]]]]

\* ToDictList with the entries in reverse column order
ToDictListReversed(df) ==
    [j \in 1..Len(df.columns) |->
        [key |-> df.columns[Len(df.columns) + 1 - j],
         val |-> List([r \in 1..Len(df.index) |->
                         df.data[r][Len(df.columns) + 1 - j]])]]

\* ToDictList that finds no entries in a frame without rows
ToDictListOfRows(df) ==
    IF Len(df.index) = 0 THEN <<>>
    ELSE [j \in 1..Len(df.columns) |->
            [key |-> df.columns[j],
             val |-> List([r \in 1..Len(df.index) |-> df.data[r][j]])]]

\* df.to_dict('list'): one entry per column in column order, its cells as a list
ToDictList(df) ==
    [j \in 1..Len(df.columns) |->
        [key |-> df.columns[j],
         val |-> List([r \in 1..Len(df.index) |-> df.data[r][j]])]]

\* ''.join(v) raises TypeError on an item that is not a str
JoinRaises(v) == \E i \in 1..len(v) : v.items[i] = None

\* ''.join(v) of one-character strings
Join(v) == Str(v.items)

\* DropGapedColumns that drops the first gaped column only
DropFirstGapedColumn(df) ==
    LET gaped == AnyGap(df)
    IN  Loc(df, [c \in 1..Len(gaped) |->
                    ~gaped[c] \/ \E b \in 1..(c - 1) : gaped[b]])

\* line 203: seq_df.loc[:, ~(seq_df == '-').any()]
DropGapedColumns(df) == Loc(df, Invert(AnyGap(df)))

\* lines 209-210: whether some ''.join of the loop raises
JoinAllRaises(lists) == \E r \in 1..Len(lists) : JoinRaises(lists[r].val)

\* lines 209-210: every list of the dict joined to a str, keys in place
JoinAll(lists) ==
    [r \in 1..Len(lists) |-> [key |-> lists[r].key, val |-> Join(lists[r].val)]]

NoFrame == [index |-> <<>>, columns |-> <<>>, data |-> <<>>]

\* ------------------------------------------------------------- write_file

Min(a, b) == IF a <= b THEN a ELSE b

\* range(0, n, step)
Range(n, step) == [k \in 1..((n + step - 1) \div step) |-> (k - 1) * step]

\* s[a:b] of a str or a list, clamped to its end
Slice(s, a, b) == SubSeq(s, a + 1, Min(b, Len(s)))

\* Blocks with every slice one character short
BlocksShort(v) ==
    LET starts == Range(len(v), BlockSize)
    IN  [k \in 1..Len(starts) |->
            Slice(v.items, starts[k], starts[k] + BlockSize - 1)]

\* line 153: sequence[i:i + 60] for i in range(0, len(sequence), 60)
Blocks(v) ==
    LET starts == Range(len(v), BlockSize)
    IN  [k \in 1..Len(starts) |-> Slice(v.items, starts[k], starts[k] + BlockSize)]

RECURSIVE JoinLines(_)
\* '\n'.join(blocks) of strs
JoinLines(blocks) ==
    IF Len(blocks) = 0 THEN <<>>
    ELSE IF Len(blocks) = 1 THEN blocks[1]
    ELSE blocks[1] \o <<"\n">> \o JoinLines(Tail(blocks))

\* line 153 raises TypeError when a block is a list: a non-empty list value
WriteRaises(entry) == entry.val.kind = "list" /\ len(entry.val) > 0

RECURSIVE WriteEntries(_)
\* lines 146-154: the text written for the entries, up to the one that raises
WriteEntries(d) ==
    IF Len(d) = 0 THEN <<>>
    ELSE IF WriteRaises(d[1]) THEN <<">", d[1].key, "\n">>
    ELSE <<">", d[1].key, "\n">> \o JoinLines(Blocks(d[1].val)) \o <<"\n">>
         \o WriteEntries(Tail(d))

\* ------------------------------------------------------------- actions

\* AlignmentFasta(sequences) on the caller's mapping
AlignmentFasta_init ==
    /\ pc = "idle"
    /\ calls < MaxCalls
    /\ calls' = calls + 1
    /\ IF Len(heap[1]) = 0
       THEN \* list(sequences.values())[0] on an empty list
            /\ raised' = "IndexError"
            /\ UNCHANGED <<aligns, passes>>
       ELSE /\ aligns' = Append(aligns,
                            [sequences        |-> 1,
                             seq_length       |-> len(heap[1][1].val),
                             num_of_sequences |-> Len(heap[1])])
            /\ passes' = Append(passes, 0)
            /\ raised' = "none"
    /\ UNCHANGED <<heap, pc, self, sequence_dict, key, seq_df, file,
                   given, before, outcome>>

\* alignment.__delete_gaped_columns() is called: line 196
delete_gaped_columns_call(i) ==
    /\ pc = "idle"
    /\ calls < MaxCalls
    /\ self' = i
    /\ sequence_dict' = aligns[i].sequences
    /\ key' = 1
    /\ pc' = "convert"
    /\ before' = heap[aligns[i].sequences]
    /\ outcome' = "running"
    /\ calls' = calls + 1
    /\ UNCHANGED <<heap, aligns, raised, seq_df, file, given, passes>>

\* one turn of the loop of lines 198-199
delete_gaped_columns_convert ==
    /\ pc = "convert"
    /\ heap' = [heap EXCEPT ![sequence_dict] =
                    SetItem(@, key, list(@[key].val))]
    /\ IF key < Len(heap[sequence_dict])
       THEN key' = key + 1 /\ pc' = pc
       ELSE key' = 0 /\ pc' = "frame"
    /\ UNCHANGED <<aligns, raised, self, sequence_dict, seq_df, file,
                   given, before, outcome, passes, calls>>

\* lines 202-210: the frame, its gap-free columns, the new dict of strs
delete_gaped_columns_frame ==
    /\ pc = "frame"
    /\ LET kept  == DropGapedColumns(FromDictIndex(heap[sequence_dict]))
           lists == ToDictList(Transpose(kept))
       IN  /\ seq_df' = kept
           /\ IF JoinAllRaises(lists)
              THEN /\ raised' = "TypeError"
                   /\ outcome' = "TypeError"
                   /\ pc' = "idle"
                   /\ sequence_dict' = 0
                   /\ UNCHANGED heap
              ELSE /\ heap' = Append(heap, JoinAll(lists))
                   /\ sequence_dict' = Len(heap) + 1
                   /\ pc' = "assign"
                   /\ UNCHANGED <<raised, outcome>>
    /\ UNCHANGED <<aligns, self, key, file, given, before, passes, calls>>

\* line 213: self.sequences = sequence_dict, and the call returns
delete_gaped_columns_assign ==
    /\ pc = "assign"
    /\ aligns' = [aligns EXCEPT ![self].sequences = sequence_dict]
    /\ passes' = [passes EXCEPT ![self] = @ + 1]
    /\ sequence_dict' = 0
    /\ pc' = "idle"
    /\ raised' = "none"
    /\ outcome' = "returned"
    /\ UNCHANGED <<heap, self, key, seq_df, file, given, before, calls>>

\* alignment.write_file(path): lines 144-154
write_file(i) ==
    /\ pc = "idle"
    /\ file' = WriteEntries(heap[aligns[i].sequences])
    /\ raised' = IF \E r \in 1..Len(heap[aligns[i].sequences]) :
                        WriteRaises(heap[aligns[i].sequences][r])
                 THEN "TypeError" ELSE "none"
    /\ UNCHANGED <<heap, aligns, pc, self, sequence_dict, key, seq_df,
                   given, before, outcome, passes, calls>>

\* ------------------------------------------------------------- specifications

\* the caller has built a mapping: any rows, of equal length or not, or none
Init ==
    /\ \E ks \in KeyOrders : \E vs \in [1..Len(ks) -> Strings] :
            given = Mapping(ks, vs)
    /\ heap = <<given>>
    /\ aligns = <<>>
    /\ raised = "none"
    /\ pc = "idle"
    /\ self = 0
    /\ sequence_dict = 0
    /\ key = 0
    /\ seq_df = NoFrame
    /\ file = <<>>
    /\ before = <<>>
    /\ outcome = "none"
    /\ passes = <<>>
    /\ calls = 0

Next ==
    \/ AlignmentFasta_init
    \/ \E i \in 1..Len(aligns) : delete_gaped_columns_call(i)
    \/ delete_gaped_columns_convert
    \/ delete_gaped_columns_frame
    \/ delete_gaped_columns_assign

Spec == Init /\ [][Next]_vars

\* a long row: n residues, each p places further in WriteAlphabet than the last
WriteRow(n, p) ==
    Str([i \in 1..n |-> WriteAlphabet[((i * p) % Len(WriteAlphabet)) + 1]])

\* an alignment as read_file constructs it, rows of one length, about to be
\* written
InitWrite ==
    /\ \E ks \in KeyOrders \ {<<>>} : \E n \in 0..MaxWriteLen :
            \E ps \in [1..Len(ks) -> WritePatterns] :
                given = Mapping(ks, [i \in 1..Len(ks) |-> WriteRow(n, ps[i])])
    /\ heap = <<given>>
    /\ aligns = <<[sequences        |-> 1,
                   seq_length       |-> len(given[1].val),
                   num_of_sequences |-> Len(given)]>>
    /\ raised = "none"
    /\ pc = "idle"
    /\ self = 0
    /\ sequence_dict = 0
    /\ key = 0
    /\ seq_df = NoFrame
    /\ file = <<>>
    /\ before = <<>>
    /\ outcome = "none"
    /\ passes = <<0>>
    /\ calls = 0

NextWrite == \E i \in 1..Len(aligns) : write_file(i)

SpecWrite == InitWrite /\ [][NextWrite]_vars

\* ------------------------------------------------------------- properties

\* the mapping instance i holds
Content(i) == heap[aligns[i].sequences]

Keys(d) == [r \in 1..Len(d) |-> d[r].key]

EqualLengthRows(d) ==
    \A r, q \in 1..Len(d) : len(d[r].val) = len(d[q].val)

AllStrs(d) == \A r \in 1..Len(d) : d[r].val.kind = "str"

\* an alignment of the data model: rows, all strs of one length
ValidAlignment(d) == Len(d) > 0 /\ AllStrs(d) /\ EqualLengthRows(d)

\* the column positions (from 1) where no row holds the gap symbol
CleanColumns(d) ==
    {c \in 1..len(d[1].val) : \A r \in 1..Len(d) : d[r].val.items[c] # GapSymbol}

\* the k-th smallest member of a set of numbers
NthOf(K, k) == CHOOSE c \in K : Cardinality({x \in K : x < c}) = k - 1

\* the items at the positions K, in ascending order of position
Restrict(items, K) == [k \in 1..Cardinality(K) |-> items[NthOf(K, k)]]

\* the mapping the filter is to produce from d
FilteredMapping(d) ==
    [r \in 1..Len(d) |->
        [key |-> d[r].key, val |-> Str(Restrict(d[r].val.items, CleanColumns(d)))]]

\* the most recent call of __delete_gaped_columns has returned
FilterReturned == pc = "idle" /\ outcome = "returned"

\* C1: when the filter has run on an alignment with equal-length rows, the
\* columns that survive are exactly those where no row has '-', and every
\* row's output is its characters at the surviving columns in ascending
\* column order.
C1_FilterCorrectness ==
    (FilterReturned /\ EqualLengthRows(before)) =>
        /\ {seq_df.columns[k] + 1 : k \in 1..Len(seq_df.columns)} = CleanColumns(before)
        /\ \A k \in 1..(Len(seq_df.columns) - 1) :
                seq_df.columns[k] < seq_df.columns[k + 1]
        /\ Len(Content(self)) = Len(before)
        /\ \A r \in 1..Len(before) :
                Content(self)[r].val =
                    Str(Restrict(before[r].val.items, CleanColumns(before)))

\* the filter has dropped a column that lies between two surviving ones and
\* has its gap in the second row only
C1_Witness ==
    /\ FilterReturned
    /\ Len(before) = 2
    /\ EqualLengthRows(before)
    /\ CleanColumns(before) = {1, 3}
    /\ before[1].val.items[2] # GapSymbol
    /\ before[1].val.items[1] # before[1].val.items[3]

\* C2: a mapping in which two sequences differ in length is never turned
\* into an AlignmentFasta instance.
C2_UnequalLengthsRejected ==
    ~EqualLengthRows(given) => Len(aligns) = 0

\* C3: between calls, every instance built from a valid mapping records in
\* seq_length the length of each of its sequences and in num_of_sequences
\* the number of its entries.
C3_RecordedLengthAndCount ==
    (pc = "idle" /\ ValidAlignment(given)) =>
        \A i \in 1..Len(aligns) :
            /\ aligns[i].num_of_sequences = Len(Content(i))
            /\ \A r \in 1..Len(Content(i)) :
                    len(Content(i)[r].val) = aligns[i].seq_length

\* C4: the filter's result has the identifiers of its input in the same
\* order, and its sequences are strs of one length, the number of surviving
\* columns.
C4_RowAndOrderPreservation ==
    FilterReturned =>
        /\ Keys(Content(self)) = Keys(before)
        /\ \A r \in 1..Len(Content(self)) :
                /\ Content(self)[r].val.kind = "str"
                /\ len(Content(self)[r].val) = Len(seq_df.columns)

\* the filter has shortened an alignment whose rows are not in alphabetical
\* order of identifier
C4_Witness ==
    /\ FilterReturned
    /\ Keys(before) = <<"y", "x">>
    /\ len(before[1].val) = 3
    /\ len(Content(self)[1].val) = 2

\* C5: a second pass of the filter over an instance leaves its sequences as
\* the first pass left them.
C5_FilterIdempotence ==
    (FilterReturned /\ passes[self] >= 2) => Content(self) = before

\* the second pass has run on an instance whose first pass removed every
\* column of a non-empty alignment
C5_Witness ==
    /\ FilterReturned
    /\ passes[self] = 2
    /\ Len(given) = 2
    /\ len(given[1].val) >= 2
    /\ \A r \in 1..Len(Content(self)) : len(Content(self)[r].val) = 0

\* every column of d holds the gap symbol in some row
AllGaped(d) == Len(d) > 0 /\ EqualLengthRows(d) /\ CleanColumns(d) = {}

\* C6: the filter on an alignment whose every column holds a gap returns
\* without an exception, and its result holds every identifier of the input
\* with the empty str.
C6_AllGapedAlignment ==
    (pc = "idle" /\ outcome \in {"returned", "TypeError"} /\ AllGaped(before)) =>
        /\ outcome = "returned"
        /\ Keys(Content(self)) = Keys(before)
        /\ \A r \in 1..Len(Content(self)) : Content(self)[r].val = Str(<<>>)

\* the filter has run on two rows of three columns, each column gaped in one
\* row only and each row gaped somewhere
C6_Witness ==
    /\ FilterReturned
    /\ Len(before) = 2
    /\ len(before[1].val) = 3
    /\ AllGaped(before)
    /\ \A c \in 1..3 : (before[1].val.items[c] = GapSymbol)
                          # (before[2].val.items[c] = GapSymbol)
    /\ \E c \in 1..3 : before[1].val.items[c] = GapSymbol
    /\ \E c \in 1..3 : before[2].val.items[c] = GapSymbol

\* the lines of a text: the pieces its newlines end
Lines(text) ==
    LET NL == {i \in 1..Len(text) : text[i] = "\n"}
    IN  [k \in 1..Cardinality(NL) |->
            SubSeq(text, IF k = 1 THEN 1 ELSE NthOf(NL, k - 1) + 1,
                         NthOf(NL, k) - 1)]

RECURSIVE Flatten(_)
Flatten(ss) == IF Len(ss) = 0 THEN <<>> ELSE ss[1] \o Flatten(Tail(ss))

\* the lines of the file that start a record
HeaderLines(lines) ==
    {k \in 1..Len(lines) : Len(lines[k]) > 0 /\ lines[k][1] = ">"}

\* the lines of the file after the r-th header and before the next
BodyLines(lines, r) ==
    LET H == HeaderLines(lines)
    IN  SubSeq(lines, NthOf(H, r) + 1,
               IF r < Cardinality(H) THEN NthOf(H, r + 1) - 1 ELSE Len(lines))

\* C7: the file write_file wrote holds one record per row in insertion
\* order, headed by the row's identifier; the blocks of its body, in order,
\* make up the row's sequence, each of BlockSize characters but the last,
\* which has from 1 to BlockSize. (An empty sequence has no blocks: its body
\* is one empty line.)
C7_WriteRoundTrip ==
    file # <<>> =>
        LET d     == Content(1)
            lines == Lines(file)
        IN  /\ file[Len(file)] = "\n"
            /\ Cardinality(HeaderLines(lines)) = Len(d)
            /\ \A r \in 1..Len(d) :
                LET body == BodyLines(lines, r)
                IN  /\ lines[NthOf(HeaderLines(lines), r)] = <<">", d[r].key>>
                    /\ r = 1 => NthOf(HeaderLines(lines), r) = 1
                    /\ Flatten(body) = d[r].val.items
                    /\ IF len(d[r].val) = 0
                       THEN body = << <<>> >>
                       ELSE /\ \A k \in 1..(Len(body) - 1) : Len(body[k]) = BlockSize
                            /\ Len(body[Len(body)]) \in 1..BlockSize

\* two rows of more than two full blocks have been written
C7_Witness ==
    /\ file # <<>>
    /\ Len(given) = 2
    /\ len(given[1].val) > 2 * BlockSize
    /\ given[1].val # given[2].val

\* C8: on an empty mapping the constructor returns no instance and raises
\* InvalidAlignment.
C8_EmptyMappingRejected ==
    Len(given) = 0 =>
        /\ Len(aligns) = 0
        /\ raised \in {"none", "InvalidAlignment"}

\* C9: when the filter has run on one instance built from a valid mapping,
\* the mapping the caller passed is as the caller built it, and so are the
\* sequences of every instance the filter has not run on.
C9_NoSharedMutableState ==
    (FilterReturned /\ ValidAlignment(given)) =>
        /\ heap[1] = given
        /\ \A j \in 1..Len(aligns) : passes[j] = 0 => Content(j) = given

\* C10: from the call of the filter on a valid alignment on, at every step
\* and after an exception, the instance's sequences are strs of one length
\* and are either the mapping the call found or the filtered mapping.
C10_NoIntermediateStates ==
    (self # 0 /\ ValidAlignment(before)) =>
        /\ ValidAlignment(Content(self))
        /\ Content(self) \in {before, FilteredMapping(before)}

====
